---- MODULE Spec2Model ----
(***************************************************************************)
(* awesome-cc: discovery of markdown-defined commands and skills, name     *)
(* validation, and the installer that copies them into an agent's          *)
(* configuration directories (src/src/awesome_cc); the telegram-notify     *)
(* skill's message formatting and sending (src/skills/telegram-notify).    *)
(***************************************************************************)
EXTENDS Integers, Sequences, FiniteSets, TLC

VARIABLES
    src,          \* the discovery root: [commands: Dir, skills: Dir]
    tgt,          \* the agent's base directory: [commands: Dir, skills: Dir]
    tgt0,         \* the agent's base directory as it was when the call began
    call,         \* the arguments of the running call (API parameters or CLI flags)
    pc,           \* position of the running call
    selected,     \* [commands, skills]: the names the CLI selected
    cmdItems,     \* commands handed to install_items / uninstall_items
    skillItems,   \* skills handed to install_items / uninstall_items
    cmdResults,   \* command_results
    skillResults, \* skill_results
    log,          \* what the user saw and what the callbacks received, in order
    exit,         \* how the call ended: "" while running, else a code or "raised"
    ret           \* return value of the pure function under study

vars == <<src, tgt, tgt0, call, pc, selected, cmdItems, skillItems, cmdResults, skillResults, log, exit, ret>>

----------------------------------------------------------------------------
(* Bounds *)

\* most items in one batch handed to install_items / uninstall_items
MaxLen == 3
\* most names given to --commands and --skills together
MaxNames == 2
\* longest list of available items handed to validate_names
MaxAvailable == 2

----------------------------------------------------------------------------
(* Values *)

\* a YAML value: a string (possibly empty) or null
YStr(s) == [tag |-> "str", s |-> s]
YNull == [tag |-> "null", s |-> ""]

\* one line of a markdown file
Dash == [k |-> "dash", key |-> "", val |-> YNull]            \* ---
KV(key, v) == [k |-> "kv", key |-> key, val |-> v]            \* key: value
Text(s) == [k |-> "text", key |-> "", val |-> YStr(s)]        \* a plain line
Bad == [k |-> "bad", key |-> "", val |-> YNull]               \* name: [   (not YAML)

\* a directory entry that is a regular file, or nothing
Absent == [kind |-> "absent", readable |-> FALSE, lines |-> <<>>]
File(lines) == [kind |-> "file", readable |-> TRUE, lines |-> lines]
Unreadable == [kind |-> "file", readable |-> FALSE, lines |-> <<>>]

\* entry names of a commands directory, in lexicographic order
CmdNames == <<"a.md", "b.md", "n.txt">>
\* entry names of a skills directory, in lexicographic order
SkillNames == <<"s", "t">>
\* names of the files inside a skill directory
EntryNames == {"SKILL.md", "x"}

Range(f) == {f[i] : i \in DOMAIN f}

\* a skills-directory entry: nothing, a plain file, or a directory of files
NoTree == [e \in EntryNames |-> Absent]
AbsentNode == [kind |-> "absent", sub |-> NoTree]
FileNode == [kind |-> "file", sub |-> NoTree]
DirNode(sub) == [kind |-> "dir", sub |-> sub]

NoDir(names) == [exists |-> FALSE, entries |-> [n \in Range(names) |-> Absent]]
NoSkillDir == [exists |-> FALSE, entries |-> [n \in Range(SkillNames) |-> AbsentNode]]

\* Path.suffix == ".md" and Path.stem of the entry names
IsMd(n) == n \in {"a.md", "b.md"}
Stem(n) == CASE n = "a.md" -> "a" [] n = "b.md" -> "b" [] n = "n.txt" -> "n" [] OTHER -> n

DefaultDescription == YStr("No description available")

\* a filesystem path: which tree, which of its two directories, which entry
Path(root, dir, name) == [root |-> root, dir |-> dir, name |-> name]

Tree(root) == CASE root = "src" -> src [] root = "tgt0" -> tgt0 [] OTHER -> tgt

----------------------------------------------------------------------------
(* discovery.py *)

RECURSIVE Flatten(_)
Flatten(ss) == IF ss = <<>> THEN <<>> ELSE Head(ss) \o Flatten(Tail(ss))

\* the names of S as the directory happens to list them (here: backwards)
ListingOrder(S, order) ==
    LET rev == [i \in 1..Len(order) |-> order[Len(order) + 1 - i]]
    IN SelectSeq(rev, LAMBDA n : n \in S)

\* sorted(paths): the names of S in lexicographic order
Sorted(S, order) == SelectSeq(order, LAMBDA n : n \in S)

\* what yaml.safe_load makes of the lines between the markers
EmptyDict == [kind |-> "dict", hasName |-> FALSE, name |-> YNull,
              hasDesc |-> FALSE, desc |-> YNull]

LastVal(group, key) ==
    LET hits == {i \in 1..Len(group) : group[i].key = key}
    IN group[CHOOSE i \in hits : \A j \in hits : j <= i].val

yaml_safe_load(group) ==
    IF group = <<>> THEN [EmptyDict EXCEPT !.kind = "none"]
    ELSE IF \A i \in 1..Len(group) : group[i].k = "kv"
    THEN [kind |-> "dict",
          hasName |-> \E i \in 1..Len(group) : group[i].key = "name",
          name |-> IF \E i \in 1..Len(group) : group[i].key = "name"
                   THEN LastVal(group, "name") ELSE YNull,
          hasDesc |-> \E i \in 1..Len(group) : group[i].key = "description",
          desc |-> IF \E i \in 1..Len(group) : group[i].key = "description"
                   THEN LastVal(group, "description") ELSE YNull]
    ELSE IF \A i \in 1..Len(group) : group[i].k = "text"
    THEN [EmptyDict EXCEPT !.kind = "scalar"]
    ELSE [EmptyDict EXCEPT !.kind = "YAMLError"]

\* re.match(r"^---\s*\n(.*?)\n---", content, re.DOTALL): the first line is the
\* marker and a later line, not the next one, starts with it; the group is
\* what lies between the first line and the earliest such line
Closers(lines) == {j \in 3..Len(lines) : lines[j].k = "dash"}

parse_frontmatter(lines) ==
    IF Len(lines) >= 1 /\ lines[1].k = "dash" /\ Closers(lines) # {}
    THEN LET j == CHOOSE c \in Closers(lines) : \A d \in Closers(lines) : c <= d
             loaded == yaml_safe_load(SubSeq(lines, 2, j - 1))
         IN IF loaded.kind \in {"YAMLError", "none"} THEN EmptyDict ELSE loaded
    ELSE EmptyDict

ItemInfo(name, description, path, item_type) ==
    [name |-> name, description |-> description, path |-> path, item_type |-> item_type]

\* one pass of the loop body of discover_commands / discover_skills over a
\* readable file: the item, or nothing when frontmatter.get raises
ItemOf(file, fallback, path, item_type) ==
    IF ~file.readable THEN <<>>
    ELSE LET frontmatter == parse_frontmatter(file.lines)
         IN IF frontmatter.kind # "dict" THEN <<>>
            ELSE <<ItemInfo(IF frontmatter.hasName THEN frontmatter.name ELSE YStr(fallback),
                            IF frontmatter.hasDesc THEN frontmatter.desc ELSE DefaultDescription,
                            path, item_type)>>

discover_commands(root) ==
    LET commands_dir == Tree(root).commands
        md_files == Sorted({n \in Range(CmdNames) :
                               commands_dir.entries[n].kind # "absent" /\ IsMd(n)}, CmdNames)
    IN IF ~commands_dir.exists THEN <<>>
       ELSE Flatten([i \in 1..Len(md_files) |->
                ItemOf(commands_dir.entries[md_files[i]], Stem(md_files[i]),
                       Path(root, "commands", md_files[i]), "command")])

discover_skills(root) ==
    LET skills_dir == Tree(root).skills
        dirs == Sorted({n \in Range(SkillNames) : skills_dir.entries[n].kind # "absent"},
                       SkillNames)
        one(n) == IF skills_dir.entries[n].kind # "dir" THEN <<>>
                  ELSE IF skills_dir.entries[n].sub["SKILL.md"].kind = "absent" THEN <<>>
                  ELSE ItemOf(skills_dir.entries[n].sub["SKILL.md"], n,
                              Path(root, "skills", n), "skill")
    IN IF ~skills_dir.exists THEN <<>>
       ELSE Flatten([i \in 1..Len(dirs) |-> one(dirs[i])])

discover_installed_commands(root) ==
    LET commands_dir == Tree(root).commands
        md_files == Sorted({n \in Range(CmdNames) :
                               commands_dir.entries[n].kind # "absent" /\ IsMd(n)}, CmdNames)
    IN IF ~commands_dir.exists THEN <<>>
       ELSE Flatten([i \in 1..Len(md_files) |->
                ItemOf(commands_dir.entries[md_files[i]], Stem(md_files[i]),
                       Path(root, "commands", md_files[i]), "command")])

discover_installed_skills(root) ==
    LET skills_dir == Tree(root).skills
        dirs == Sorted({n \in Range(SkillNames) : skills_dir.entries[n].kind # "absent"},
                       SkillNames)
        one(n) == IF skills_dir.entries[n].kind # "dir" THEN <<>>
                  ELSE IF skills_dir.entries[n].sub["SKILL.md"].kind = "absent" THEN <<>>
                  ELSE ItemOf(skills_dir.entries[n].sub["SKILL.md"], n,
                              Path(root, "skills", n), "skill")
    IN IF ~skills_dir.exists THEN <<>>
       ELSE Flatten([i \in 1..Len(dirs) |-> one(dirs[i])])

get_item_by_name(items, name) ==
    LET hits == {i \in 1..Len(items) : items[i].name = name}
    IN IF hits = {} THEN <<>>
       ELSE <<items[CHOOSE i \in hits : \A j \in hits : i <= j]>>

\* valid keeps a name twice when it is requested twice (the mutant drops it)
validate_namesDedup(requested, available) ==
    LET available_names == {available[i].name : i \in 1..Len(available)}
        first(i) == \A j \in 1..(i - 1) : requested[j] # requested[i]
        idx == SelectSeq([i \in 1..Len(requested) |-> i],
                         LAMBDA i : requested[i] \in available_names /\ first(i))
    IN [valid |-> [k \in 1..Len(idx) |-> requested[idx[k]]],
        invalid |-> SelectSeq(requested, LAMBDA n : n \notin available_names)]

\* unknown names silently dropped (a mutant)
validate_namesLenient(requested, available) ==
    LET available_names == {available[i].name : i \in 1..Len(available)}
    IN [valid |-> SelectSeq(requested, LAMBDA n : n \in available_names),
        invalid |-> <<>>]

validate_names(requested, available) ==
    LET available_names == {available[i].name : i \in 1..Len(available)}
    IN [valid |-> SelectSeq(requested, LAMBDA n : n \in available_names),
        invalid |-> SelectSeq(requested, LAMBDA n : n \notin available_names)]

----------------------------------------------------------------------------
(* installer.py *)

\* get_target_dirs: the base directory of an agent ("" when it raises ValueError)
get_target_dirs(agent) ==
    CASE agent = "claude-code" -> ".claude"
      [] agent = "codex" -> ".codex"
      [] agent = "opencode" -> ".opencode"
      [] OTHER -> ""

Result(name, success, skipped, error) ==
    [name |-> name, success |-> success, skipped |-> skipped, error |-> error]

\* UninstallResult(name=..., success=..., error=...): skipped keeps its default
UninstallResult(name, success, error) == Result(name, success, FALSE, error)

\* the node a path names, in the filesystem as it is now
CommandAt(path) ==
    IF Tree(path.root).commands.exists THEN Tree(path.root).commands.entries[path.name]
    ELSE Absent
SkillAt(path) ==
    IF Tree(path.root).skills.exists THEN Tree(path.root).skills.entries[path.name]
    ELSE AbsentNode

\* ensure_target_dirs: mkdir(parents=True, exist_ok=True) of the commands
\* directory, then of the skills directory; either may raise
ensure_target_dirs(fs, mk) ==
    IF mk = "fail_commands" THEN [fs |-> fs, raised |-> TRUE]
    ELSE LET one == [fs EXCEPT !.commands.exists = TRUE]
         IN IF mk = "fail_skills" THEN [fs |-> one, raised |-> TRUE]
            ELSE [fs |-> [one EXCEPT !.skills.exists = TRUE], raised |-> FALSE]

\* target_file.exists() / target_path.exists()
CommandExists(item) ==
    tgt.commands.exists /\ tgt.commands.entries[item.path.name].kind # "absent"
SkillExists(item) ==
    tgt.skills.exists /\ tgt.skills.entries[item.path.name].kind # "absent"

\* installer.py:64-84, given whether line 71 calls the callback (asked) and what
\* the callback answers; io is what the operating system does to the copy
CopyCommand(item, dry_run, asked, answer, io) ==
    LET source == CommandAt(item.path)
        fail(error) == [fs |-> tgt, asked |-> asked,
                        result |-> Result(item.name, FALSE, FALSE, error)]
    IN IF dry_run
       THEN [fs |-> tgt, asked |-> FALSE, result |-> Result(item.name, TRUE, FALSE, "")]
       ELSE IF asked /\ ~answer
       THEN [fs |-> tgt, asked |-> TRUE, result |-> Result(item.name, TRUE, TRUE, "")]
       ELSE IF source.kind = "absent" \/ ~tgt.commands.exists   \* FileNotFoundError
       THEN fail("other")
       ELSE IF ~source.readable \/ io = "perm"                  \* PermissionError
       THEN fail("Permission denied")
       ELSE IF io = "io" THEN fail("other")                     \* any other exception
       ELSE [fs |-> [tgt EXCEPT !.commands.entries[item.path.name] = source],
             asked |-> asked, result |-> Result(item.name, TRUE, FALSE, "")]

\* mutants of install_command: one that copies in a dry run, one that asks
\* although force is set, one that reads the callback's answer backwards
install_commandInDryRun(item, force, dry_run, cb, answer, io) ==
    CopyCommand(item, FALSE, CommandExists(item) /\ ~force /\ cb, answer, io)
install_commandAsking(item, force, dry_run, cb, answer, io) ==
    CopyCommand(item, dry_run, ~dry_run /\ CommandExists(item) /\ cb, answer, io)
install_commandNegated(item, force, dry_run, cb, answer, io) ==
    CopyCommand(item, dry_run, ~dry_run /\ CommandExists(item) /\ ~force /\ cb, ~answer, io)

\* install_command(item, target_dir, force, dry_run, confirm_callback); cb says
\* whether a callback is supplied, answer what it returns when it is called
install_command(item, force, dry_run, cb, answer, io) ==
    CopyCommand(item, dry_run, ~dry_run /\ CommandExists(item) /\ ~force /\ cb, answer, io)

\* the files of a source tree that copytree can read
Readable(sub) == [e \in EntryNames |-> IF sub[e].readable THEN sub[e] ELSE Absent]

\* a copy into the existing directory, without the rmtree of line 118: what
\* the old directory held and the source does not have stays (a mutant)
CopySkillMerging(item, dry_run, asked, answer, io) ==
    LET target_path == tgt.skills.entries[item.path.name]
        source == SkillAt(item.path)
        merged == DirNode([e \in EntryNames |->
                             IF source.sub[e].kind # "absent" THEN source.sub[e]
                             ELSE target_path.sub[e]])
    IN IF dry_run
       THEN [fs |-> tgt, asked |-> FALSE, result |-> Result(item.name, TRUE, FALSE, "")]
       ELSE IF asked /\ ~answer
       THEN [fs |-> tgt, asked |-> TRUE, result |-> Result(item.name, TRUE, TRUE, "")]
       ELSE IF source.kind # "dir" \/ io # "ok"
       THEN [fs |-> tgt, asked |-> asked, result |-> Result(item.name, FALSE, FALSE, "other")]
       ELSE [fs |-> [tgt EXCEPT !.skills.exists = TRUE,
                                !.skills.entries[item.path.name] = merged],
             asked |-> asked, result |-> Result(item.name, TRUE, FALSE, "")]

\* installer.py:107-137, given whether line 114 calls the callback (asked) and
\* what it answers; io is what the operating system does: "ok", or a failure
\* of rmtree ("perm_rm", "io_rm") or of copytree ("perm_cp" in makedirs,
\* "io_cp" while copying the files)
CopySkill(item, dry_run, asked, answer, io) ==
    LET target_path == tgt.skills.entries[item.path.name]
        exists == SkillExists(item)
        source == SkillAt(item.path)
        put(node) == [tgt EXCEPT !.skills.exists = TRUE,
                                 !.skills.entries[item.path.name] = node]
        removed == IF exists THEN put(AbsentNode) ELSE tgt
        fail(fs, error) == [fs |-> fs, asked |-> asked,
                            result |-> Result(item.name, FALSE, FALSE, error)]
    IN IF dry_run
       THEN [fs |-> tgt, asked |-> FALSE, result |-> Result(item.name, TRUE, FALSE, "")]
       ELSE IF asked /\ ~answer
       THEN [fs |-> tgt, asked |-> TRUE, result |-> Result(item.name, TRUE, TRUE, "")]
       ELSE IF exists /\ io = "perm_rm" THEN fail(tgt, "Permission denied")
       ELSE IF exists /\ (io = "io_rm" \/ target_path.kind = "file")  \* NotADirectoryError
       THEN fail(tgt, "other")
       ELSE IF source.kind # "dir" THEN fail(removed, "other")
       ELSE IF io = "perm_cp" THEN fail(removed, "Permission denied")
       ELSE IF io = "io_cp" THEN fail(put(DirNode(NoTree)), "other")
       ELSE IF \E e \in EntryNames : source.sub[e].kind = "file" /\ ~source.sub[e].readable
       THEN fail(put(DirNode(Readable(source.sub))), "other")       \* shutil.Error
       ELSE [fs |-> put(source), asked |-> asked,
             result |-> Result(item.name, TRUE, FALSE, "")]

\* a skill installer that leaves an existing destination alone (a mutant)
install_skillKeeping(item, force, dry_run, cb, answer, io) ==
    CopySkill(item, dry_run, ~dry_run /\ SkillExists(item), FALSE, io)

\* install_skill(item, target_dir, force, dry_run, confirm_callback)
install_skill(item, force, dry_run, cb, answer, io) ==
    CopySkill(item, dry_run, ~dry_run /\ SkillExists(item) /\ ~force /\ cb, answer, io)

\* unlink(missing_ok=True): the mutant of uninstall_command
uninstall_commandMissingOk(item, dry_run, io) ==
    LET node == CommandAt(item.path)
    IN IF dry_run \/ node.kind = "absent" \/ io = "ok"
       THEN [fs |-> IF dry_run \/ node.kind = "absent" THEN tgt
                    ELSE [tgt EXCEPT !.commands.entries[item.path.name] = Absent],
             result |-> UninstallResult(item.name, TRUE, "")]
       ELSE [fs |-> tgt,
             result |-> UninstallResult(item.name, FALSE,
                                        IF io = "perm" THEN "Permission denied"
                                        ELSE "other")]

\* uninstall_command(item, dry_run)
uninstall_command(item, dry_run, io) ==
    LET node == CommandAt(item.path)
        fail(error) == [fs |-> tgt, result |-> UninstallResult(item.name, FALSE, error)]
    IN IF dry_run THEN [fs |-> tgt, result |-> UninstallResult(item.name, TRUE, "")]
       ELSE IF node.kind = "absent" THEN fail("File not found")
       ELSE IF io = "perm" THEN fail("Permission denied")
       ELSE IF io = "io" THEN fail("other")
       ELSE [fs |-> [tgt EXCEPT !.commands.entries[item.path.name] = Absent],
             result |-> UninstallResult(item.name, TRUE, "")]

\* uninstall_skill(item, dry_run)
uninstall_skill(item, dry_run, io) ==
    LET node == SkillAt(item.path)
        fail(error) == [fs |-> tgt, result |-> UninstallResult(item.name, FALSE, error)]
    IN IF dry_run THEN [fs |-> tgt, result |-> UninstallResult(item.name, TRUE, "")]
       ELSE IF node.kind = "absent" THEN fail("Directory not found")
       ELSE IF io = "perm" THEN fail("Permission denied")
       ELSE IF io = "io" \/ node.kind = "file" THEN fail("other")   \* NotADirectoryError
       ELSE [fs |-> [tgt EXCEPT !.skills.entries[item.path.name] = AbsentNode],
             result |-> UninstallResult(item.name, TRUE, "")]

----------------------------------------------------------------------------
(* The running call *)

IsCli == call.op \in {"install", "uninstall"}
IsInstall == call.op \in {"install_items", "install"}

\* a CLI that withholds the callback only for --force (a mutant)
CallbackSuppliedUnlessForced == IF IsCli THEN ~call.force ELSE call.cb

\* cli.py:264: the CLI hands install_items a callback unless --force or --yes
CallbackSupplied == IF IsCli THEN ~(call.force \/ call.yes) ELSE call.cb
\* cli.py:251-255: overwrite_callback, given what the user answers the prompt
overwrite_callback(answer) == IF IsCli /\ call.yes THEN TRUE ELSE answer
Force == IF call.op = "uninstall" THEN FALSE ELSE call.force

\* a callback or a prompt, with what it was given and what it answered
Event(e, name, success, skipped, answer) ==
    [e |-> e, name |-> name, success |-> success, skipped |-> skipped, answer |-> answer]

IoCommand == {"ok", "perm", "io"}
IoSkill == {"ok", "perm_rm", "io_rm", "perm_cp", "io_cp"}
IoMkdir == {"ok", "fail_commands", "fail_skills"}

\* installer.py:166-167, the head of install_items
InstallBegin ==
    /\ pc = "call" /\ IsInstall
    /\ \E mk \in IoMkdir :
          /\ call.dry_run => mk = "ok"
          /\ LET r == IF call.dry_run THEN [fs |-> tgt, raised |-> FALSE]
                      ELSE ensure_target_dirs(tgt, mk)
             IN /\ tgt' = r.fs
                /\ pc' = IF r.raised THEN "done" ELSE "run"
                /\ exit' = IF ~r.raised THEN exit
                           ELSE IF IsCli THEN "exit1" ELSE "raised"
    /\ UNCHANGED <<src, tgt0, selected, call, cmdItems, skillItems, cmdResults, skillResults, log, ret>>

\* installer.py:170-174, one pass of the loop over the commands
InstallCommandStep ==
    /\ pc = "run" /\ IsInstall
    /\ Len(cmdResults) < Len(cmdItems)
    /\ \E answer \in BOOLEAN, io \in IoCommand :
          LET cmd == cmdItems[Len(cmdResults) + 1]
              r == install_command(cmd, Force, call.dry_run, CallbackSupplied,
                                   overwrite_callback(answer), io)
          IN /\ tgt' = r.fs
             /\ cmdResults' = Append(cmdResults, r.result)
             /\ log' = log
                   \o (IF r.asked THEN <<Event("confirm_callback", cmd.name, FALSE, FALSE,
                                       overwrite_callback(answer))>>
                       ELSE <<>>)
                   \o (IF call.progress
                       THEN <<Event("progress_callback", r.result.name,
                                    r.result.success, r.result.skipped, FALSE)>>
                       ELSE <<>>)
    /\ UNCHANGED <<src, tgt0, selected, call, pc, cmdItems, skillItems, skillResults, exit, ret>>

\* a loop over the skills that does not wait for the loop over the commands
\* to end (a mutant)
InstallSkillStepEarly ==
    /\ pc = "run" /\ IsInstall
    /\ Len(skillResults) < Len(skillItems)
    /\ \E answer \in BOOLEAN, io \in IoSkill :
          LET skill == skillItems[Len(skillResults) + 1]
              r == install_skill(skill, Force, call.dry_run, CallbackSupplied,
                                 overwrite_callback(answer), io)
          IN /\ tgt' = r.fs
             /\ skillResults' = Append(skillResults, r.result)
             /\ log' = log
                   \o (IF r.asked THEN <<Event("confirm_callback", skill.name, FALSE, FALSE,
                                       overwrite_callback(answer))>>
                       ELSE <<>>)
                   \o (IF call.progress
                       THEN <<Event("progress_callback", r.result.name,
                                    r.result.success, r.result.skipped, FALSE)>>
                       ELSE <<>>)
    /\ UNCHANGED <<src, tgt0, selected, call, pc, cmdItems, skillItems, cmdResults, exit, ret>>

\* installer.py:177-181, one pass of the loop over the skills
InstallSkillStep ==
    /\ pc = "run" /\ IsInstall
    /\ Len(cmdResults) = Len(cmdItems)
    /\ Len(skillResults) < Len(skillItems)
    /\ \E answer \in BOOLEAN, io \in IoSkill :
          LET skill == skillItems[Len(skillResults) + 1]
              r == install_skill(skill, Force, call.dry_run, CallbackSupplied,
                                 overwrite_callback(answer), io)
          IN /\ tgt' = r.fs
             /\ skillResults' = Append(skillResults, r.result)
             /\ log' = log
                   \o (IF r.asked THEN <<Event("confirm_callback", skill.name, FALSE, FALSE,
                                       overwrite_callback(answer))>>
                       ELSE <<>>)
                   \o (IF call.progress
                       THEN <<Event("progress_callback", r.result.name,
                                    r.result.success, r.result.skipped, FALSE)>>
                       ELSE <<>>)
    /\ UNCHANGED <<src, tgt0, selected, call, pc, cmdItems, skillItems, cmdResults, exit, ret>>

\* installer.py:277-281, one pass of the loop over the commands
UninstallCommandStep ==
    /\ pc = "run" /\ ~IsInstall
    /\ Len(cmdResults) < Len(cmdItems)
    /\ \E io \in IoCommand :
          LET r == uninstall_command(cmdItems[Len(cmdResults) + 1], call.dry_run, io)
          IN /\ tgt' = r.fs
             /\ cmdResults' = Append(cmdResults, r.result)
             /\ log' = log \o (IF call.progress
                               THEN <<Event("progress_callback", r.result.name,
                                            r.result.success, r.result.skipped, FALSE)>>
                               ELSE <<>>)
    /\ UNCHANGED <<src, tgt0, selected, call, pc, cmdItems, skillItems, skillResults, exit, ret>>

\* installer.py:284-288, one pass of the loop over the skills
UninstallSkillStep ==
    /\ pc = "run" /\ ~IsInstall
    /\ Len(cmdResults) = Len(cmdItems)
    /\ Len(skillResults) < Len(skillItems)
    /\ \E io \in IoCommand :
          LET r == uninstall_skill(skillItems[Len(skillResults) + 1], call.dry_run, io)
          IN /\ tgt' = r.fs
             /\ skillResults' = Append(skillResults, r.result)
             /\ log' = log \o (IF call.progress
                               THEN <<Event("progress_callback", r.result.name,
                                            r.result.success, r.result.skipped, FALSE)>>
                               ELSE <<>>)
    /\ UNCHANGED <<src, tgt0, selected, call, pc, cmdItems, skillItems, cmdResults, exit, ret>>

\* installer.py:183 and 290: return command_results, skill_results
Return ==
    /\ pc = "run" /\ ~IsCli
    /\ Len(cmdResults) = Len(cmdItems) /\ Len(skillResults) = Len(skillItems)
    /\ pc' = "done"
    /\ exit' = "returned"
    /\ UNCHANGED <<src, tgt0, selected, tgt, call, cmdItems, skillItems, cmdResults, skillResults, log, ret>>

----------------------------------------------------------------------------
(* Specification of install_items and uninstall_items called directly *)

New == File(<<Text("new")>>)
Old == File(<<Text("old")>>)
Named(x) == File(<<Dash, KV("name", YStr(x)), Dash, Text("new")>>)

\* the discovery root of the runs: a.md without metadata, b.md named x, skill s
Source ==
    [commands |-> [exists |-> TRUE,
                   entries |-> [n \in Range(CmdNames) |->
                                  CASE n = "a.md" -> New [] n = "b.md" -> Named("x")
                                    [] OTHER -> Absent]],
     skills |-> [exists |-> TRUE,
                 entries |-> [n \in Range(SkillNames) |->
                                IF n = "s"
                                THEN DirNode([e \in EntryNames |->
                                                IF e = "SKILL.md" THEN New ELSE Absent])
                                ELSE AbsentNode]]]

OldSkill == DirNode([e \in EntryNames |-> Old])

\* a discovery root whose a.md and b.md both declare the name x
SourceTwins == [Source EXCEPT !.commands.entries["a.md"] = Named("x")]

\* the agent's directories before the call: missing, or holding older installs
Targets ==
    {[commands |-> c, skills |-> k] :
        c \in {NoDir(CmdNames)} \cup
              {[exists |-> TRUE, entries |-> e] :
                  e \in {f \in [Range(CmdNames) -> {Absent, Old}] : f["n.txt"] = Absent}},
        k \in {NoSkillDir} \cup
              {[exists |-> TRUE, entries |-> e] :
                  e \in {f \in [Range(SkillNames) -> {AbsentNode, OldSkill}] :
                            f["t"] = AbsentNode}}}

\* all sequences over S of length at most n
SeqsUpTo(S, n) == UNION {[1..k -> S] : k \in 0..n}

\* the items a caller may pass: for install the discovered ones, for uninstall
\* the paths below the target directories, installed or not
CommandPool(op) ==
    IF op = "install_items" THEN Range(discover_commands("src"))
    ELSE {ItemInfo(YStr(Stem(n)), DefaultDescription, Path("tgt", "commands", n), "command") :
             n \in {"a.md", "b.md"}}
SkillPool(op) ==
    IF op = "install_items" THEN Range(discover_skills("src"))
    ELSE {ItemInfo(YStr("s"), DefaultDescription, Path("tgt", "skills", "s"), "skill")}

ApiCalls ==
    {[op |-> "install_items", force |-> f, dry_run |-> d, cb |-> c, progress |-> p] :
        f \in BOOLEAN, d \in BOOLEAN, c \in BOOLEAN, p \in BOOLEAN}
    \cup {[op |-> "uninstall_items", force |-> FALSE, dry_run |-> d, cb |-> FALSE,
           progress |-> p] : d \in BOOLEAN, p \in BOOLEAN}

Init ==
    /\ src = Source
    /\ tgt \in Targets
    /\ tgt0 = tgt
    /\ selected = [commands |-> <<>>, skills |-> <<>>]
    /\ call \in ApiCalls
    /\ pc = IF call.op = "install_items" THEN "call" ELSE "run"
    /\ cmdItems \in SeqsUpTo(CommandPool(call.op), MaxLen)
    /\ skillItems \in SeqsUpTo(SkillPool(call.op), MaxLen - Len(cmdItems))
    /\ cmdResults = <<>>
    /\ skillResults = <<>>
    /\ log = <<>>
    /\ exit = "running"
    /\ ret = <<>>

Next ==
    \/ InstallBegin
    \/ InstallCommandStep
    \/ InstallSkillStep
    \/ UninstallCommandStep
    \/ UninstallSkillStep
    \/ Return

Spec == Init /\ [][Next]_vars

----------------------------------------------------------------------------
(* ui.py and cli.py *)

Ev(e, name) == Event(e, name, FALSE, FALSE, FALSE)
Names(items) == [i \in DOMAIN items |-> items[i].name]

\* what the user does with a checkbox prompt: cancel it, or tick the
\* [Select All] and [Select None] markers and some of the items
Ticks(items) ==
    {[cancel |-> TRUE, all |-> FALSE, none |-> FALSE, items |-> {}]}
    \cup {[cancel |-> FALSE, all |-> a, none |-> n, items |-> S] :
             a \in BOOLEAN, n \in BOOLEAN, S \in SUBSET DOMAIN items}

\* ui.py:14-16
SELECT_ALL == YStr("[Select All]")
SELECT_NONE == YStr("[Select None]")

\* an interactive_select that looks for [Select None] first (a mutant)
interactive_selectNoneFirst(items, tick) ==
    IF items = <<>> THEN <<>>
    ELSE IF tick.cancel THEN <<>>
    ELSE IF tick.none THEN <<>>
    ELSE IF tick.all THEN Names(items)
    ELSE Names(SelectSeq(items, LAMBDA it :
                \E i \in tick.items : items[i] = it))

\* ui.py:31-81; the checkbox returns the ticked values in the order of the choices
interactive_select(items, tick) ==
    IF items = <<>> THEN <<>>
    ELSE IF tick.cancel THEN <<>>
    ELSE IF tick.all THEN Names(items)
    ELSE IF tick.none THEN <<>>
    ELSE Names(SelectSeq(items, LAMBDA it :
                \E i \in tick.items : items[i] = it))

\* the prompt interactive_select shows, if it shows one
SelectPrompt(items, what) == IF items = <<>> THEN <<>> ELSE <<Ev("prompt_select", what)>>

\* ui.py:119-127; answer is what the user answers the prompt (None counts as no)
confirm_install(auto_yes, answer) == IF auto_yes THEN TRUE ELSE answer

\* confirm_uninstall(auto_yes): same contract as confirm_install
confirm_uninstall(auto_yes, answer) == IF auto_yes THEN TRUE ELSE answer

\* a check that counts only --commands and --skills against --all (the mutant)
ConflictNamesOnly == call.all_items /\ (call.commands # <<>> \/ call.skills # <<>>)

\* cli.py:172-181 and 371-380
Conflict ==
    LET selector_count ==
            (IF call.commands # <<>> THEN 1 ELSE 0) + (IF call.skills # <<>> THEN 1 ELSE 0)
            + (IF call.commands_only THEN 1 ELSE 0) + (IF call.skills_only THEN 1 ELSE 0)
            + (IF call.all_items THEN 1 ELSE 0)
    IN call.all_items /\ selector_count > 1

Stop(code, events) ==
    [exit |-> code, log |-> events, selected |-> [commands |-> <<>>, skills |-> <<>>]]

\* cli.py:183-219 and 382-424: the names to transfer, or the exit
Select(available_commands, available_skills, tc, ts, header) ==
    IF call.all_items
    THEN [commands |-> Names(available_commands), skills |-> Names(available_skills),
          log |-> <<>>, exit |-> "running"]
    ELSE IF call.commands # <<>> \/ call.skills # <<>>
    THEN LET c == validate_names(call.commands, available_commands)
             k == validate_names(call.skills, available_skills)
         IN IF call.commands # <<>> /\ c.invalid # <<>>
            THEN [commands |-> <<>>, skills |-> <<>>,
                  log |-> <<Ev("show_invalid_names", c.invalid)>>, exit |-> "exit1"]
            ELSE IF call.skills # <<>> /\ k.invalid # <<>>
            THEN [commands |-> <<>>, skills |-> <<>>,
                  log |-> <<Ev("show_invalid_names", k.invalid)>>, exit |-> "exit1"]
            ELSE [commands |-> IF call.commands # <<>> THEN c.valid ELSE <<>>,
                  skills |-> IF call.skills # <<>> THEN k.valid ELSE <<>>,
                  log |-> <<>>, exit |-> "running"]
    ELSE IF header = "nothing installed"
    THEN [commands |-> <<>>, skills |-> <<>>, log |-> <<Ev("show_header", "")>>,
          exit |-> "exit0"]
    ELSE [commands |-> IF call.skills_only THEN <<>>
                       ELSE interactive_select(available_commands, tc),
          skills |-> IF call.commands_only THEN <<>>
                     ELSE interactive_select(available_skills, ts),
          log |-> <<Ev("show_header", "")>>
                  \o (IF call.skills_only THEN <<>>
                      ELSE SelectPrompt(available_commands, "commands"))
                  \o (IF call.commands_only THEN <<>>
                      ELSE SelectPrompt(available_skills, "skills")),
          exit |-> "running"]

\* cli.py:149-219: install, up to the summary
install_select(tc, ts) ==
    LET available_commands == discover_commands("src")
        available_skills == discover_skills("src")
        s == Select(available_commands, available_skills, tc, ts, "")
    IN IF call.list_items THEN Stop("exit0", <<Ev("show_list", "")>>)
       ELSE IF call.agent = "" THEN Stop("exit1", <<Ev("show_error", "agent required")>>)
       ELSE IF call.agent \notin {"claude-code", "codex"}
       THEN Stop("exit1", <<Ev("show_error", "unknown agent")>>)
       ELSE IF Conflict THEN Stop("exit1", <<Ev("show_error", "all combined")>>)
       ELSE IF s.exit # "running" THEN Stop(s.exit, s.log)
       ELSE IF s.commands = <<>> /\ s.skills = <<>>
       THEN Stop("exit0", s.log \o <<Ev("nothing", "")>>)
       ELSE [exit |-> "running", log |-> s.log,
             selected |-> [commands |-> s.commands, skills |-> s.skills]]

\* cli.py:348-424: uninstall, up to the summary
uninstall_select(tc, ts) ==
    LET installed_commands == discover_installed_commands("tgt")
        installed_skills == discover_installed_skills("tgt")
        s == Select(installed_commands, installed_skills, tc, ts,
                    IF installed_commands = <<>> /\ installed_skills = <<>>
                    THEN "nothing installed" ELSE "")
    IN IF call.agent = "" THEN Stop("exit1", <<Ev("show_error", "agent required")>>)
       ELSE IF call.agent \notin {"claude-code", "codex"}
       THEN Stop("exit1", <<Ev("show_error", "unknown agent")>>)
       ELSE IF call.list_items THEN Stop("exit0", <<Ev("show_installed_list", "")>>)
       ELSE IF Conflict THEN Stop("exit1", <<Ev("show_error", "all combined")>>)
       ELSE IF s.exit # "running" THEN Stop(s.exit, s.log)
       ELSE IF s.commands = <<>> /\ s.skills = <<>>
       THEN Stop("exit0", s.log \o <<Ev("nothing", "")>>)
       ELSE [exit |-> "running", log |-> s.log,
             selected |-> [commands |-> s.commands, skills |-> s.skills]]

\* the prompts are reached only without --list, --all, --commands and --skills
Prompted(items, skipped) ==
    IF call.list_items \/ call.all_items \/ call.commands # <<>> \/ call.skills # <<>>
       \/ skipped
    THEN {[cancel |-> TRUE, all |-> FALSE, none |-> FALSE, items |-> {}]}
    ELSE Ticks(items)

\* cli.py:149-219
InstallSelect ==
    /\ pc = "cli" /\ call.op = "install"
    /\ \E tc \in Prompted(discover_commands("src"), call.skills_only),
          ts \in Prompted(discover_skills("src"), call.commands_only) :
          LET r == install_select(tc, ts)
          IN /\ exit' = r.exit
             /\ log' = log \o r.log
             /\ selected' = r.selected
             /\ pc' = IF r.exit = "running" THEN "confirm" ELSE "done"
    /\ UNCHANGED <<src, tgt, tgt0, call, cmdItems, skillItems, cmdResults, skillResults, ret>>

\* cli.py:348-424
UninstallSelect ==
    /\ pc = "cli" /\ call.op = "uninstall"
    /\ \E tc \in Prompted(discover_installed_commands("tgt"), call.skills_only),
          ts \in Prompted(discover_installed_skills("tgt"), call.commands_only) :
          LET r == uninstall_select(tc, ts)
          IN /\ exit' = r.exit
             /\ log' = log \o r.log
             /\ selected' = r.selected
             /\ pc' = IF r.exit = "running" THEN "confirm" ELSE "done"
    /\ UNCHANGED <<src, tgt, tgt0, call, cmdItems, skillItems, cmdResults, skillResults, ret>>

\* the items behind the selected names (cli.py:229-240 and 434-445)
ItemsOf(names, available) ==
    Flatten([i \in DOMAIN names |-> get_item_by_name(available, names[i])])

\* an install that asks before it shows the summary (a mutant)
InstallConfirmAskingFirst ==
    /\ pc = "confirm" /\ call.op = "install"
    /\ \E answer \in BOOLEAN :
          LET go == confirm_install(call.yes, answer)
          IN /\ log' = log \o (IF call.yes THEN <<>> ELSE <<Ev("prompt_confirm", "")>>)
                           \o <<Ev("show_summary", "")>>
             /\ pc' = IF go THEN "call" ELSE "done"
             /\ exit' = IF go THEN exit ELSE "exit0"
             /\ cmdItems' = IF go THEN ItemsOf(selected.commands, discover_commands("src"))
                            ELSE cmdItems
             /\ skillItems' = IF go THEN ItemsOf(selected.skills, discover_skills("src"))
                              ELSE skillItems
    /\ UNCHANGED <<src, tgt, tgt0, call, selected, cmdResults, skillResults, ret>>

\* cli.py:221-246: summary, batch confirmation, the items to install
InstallConfirm ==
    /\ pc = "confirm" /\ call.op = "install"
    /\ \E answer \in BOOLEAN :
          LET go == confirm_install(call.yes, answer)
          IN /\ log' = log \o <<Ev("show_summary", "")>>
                           \o (IF call.yes THEN <<>> ELSE <<Ev("prompt_confirm", "")>>)
             /\ pc' = IF go THEN "call" ELSE "done"
             /\ exit' = IF go THEN exit ELSE "exit0"
             /\ cmdItems' = IF go THEN ItemsOf(selected.commands, discover_commands("src"))
                            ELSE cmdItems
             /\ skillItems' = IF go THEN ItemsOf(selected.skills, discover_skills("src"))
                              ELSE skillItems
    /\ UNCHANGED <<src, tgt, tgt0, call, selected, cmdResults, skillResults, ret>>

\* cli.py:426-451: summary, batch confirmation, the items to uninstall
UninstallConfirm ==
    /\ pc = "confirm" /\ call.op = "uninstall"
    /\ \E answer \in BOOLEAN :
          LET go == confirm_uninstall(call.yes, answer)
          IN /\ log' = log \o <<Ev("show_summary", "")>>
                           \o (IF call.yes THEN <<>> ELSE <<Ev("prompt_confirm", "")>>)
             /\ pc' = IF go THEN "run" ELSE "done"
             /\ exit' = IF go THEN exit ELSE "exit0"
             /\ cmdItems' = IF go THEN ItemsOf(selected.commands,
                                               discover_installed_commands("tgt"))
                            ELSE cmdItems
             /\ skillItems' = IF go THEN ItemsOf(selected.skills,
                                                 discover_installed_skills("tgt"))
                              ELSE skillItems
    /\ UNCHANGED <<src, tgt, tgt0, call, selected, cmdResults, skillResults, ret>>

\* cli.py:268-273 and 463-468: the command returns after show_completion
CompletionCode == "exit0"

\* cli.py:268-273 and 463-468
Complete ==
    /\ pc = "run" /\ IsCli
    /\ Len(cmdResults) = Len(cmdItems) /\ Len(skillResults) = Len(skillItems)
    /\ log' = log \o <<Ev("show_completion", "")>>
    /\ pc' = "done"
    /\ exit' = CompletionCode
    /\ UNCHANGED <<src, tgt, tgt0, call, selected, cmdItems, skillItems, cmdResults,
                   skillResults, ret>>

\* what the command line can carry
Y(S) == {YStr(x) : x \in S}
CliCalls ==
    {[op |-> o, agent |-> a, commands |-> c, skills |-> k, commands_only |-> co,
      skills_only |-> so, all_items |-> al, list_items |-> li, dry_run |-> d,
      yes |-> y, force |-> f, progress |-> TRUE] :
        o \in {"install", "uninstall"}, a \in {"", "claude-code", "opencode"},
        c \in SeqsUpTo(Y({"a", "z"}), MaxNames), k \in SeqsUpTo(Y({"s", "y"}), MaxNames),
        co \in BOOLEAN, so \in BOOLEAN, al \in BOOLEAN, li \in BOOLEAN,
        d \in BOOLEAN, y \in BOOLEAN, f \in BOOLEAN}

\* the agent's directories before the command: nothing, an older install of
\* a.md and s, or everything installed
CliTargets ==
    LET dir(e) == [exists |-> TRUE, entries |-> e]
        older == [commands |-> dir([n \in Range(CmdNames) |->
                                      IF n = "a.md" THEN Old ELSE Absent]),
                  skills |-> dir([n \in Range(SkillNames) |->
                                    IF n = "s" THEN OldSkill ELSE AbsentNode])]
    IN {[commands |-> NoDir(CmdNames), skills |-> NoSkillDir], older, Source}

InitCli ==
    /\ src \in {Source, SourceTwins}
    /\ tgt \in CliTargets
    /\ tgt0 = tgt
    /\ call \in {c \in CliCalls : /\ Len(c.commands) + Len(c.skills) <= MaxNames
                                  /\ c.op = "uninstall" => ~c.force}
    /\ pc = "cli"
    /\ selected = [commands |-> <<>>, skills |-> <<>>]
    /\ cmdItems = <<>>
    /\ skillItems = <<>>
    /\ cmdResults = <<>>
    /\ skillResults = <<>>
    /\ log = <<>>
    /\ exit = "running"
    /\ ret = <<>>

NextCli ==
    \/ InstallSelect
    \/ UninstallSelect
    \/ InstallConfirm
    \/ UninstallConfirm
    \/ InstallBegin
    \/ InstallCommandStep
    \/ InstallSkillStep
    \/ UninstallCommandStep
    \/ UninstallSkillStep
    \/ Complete

SpecCli == InitCli /\ [][NextCli]_vars

----------------------------------------------------------------------------
(* Claims about install_items and uninstall_items *)

Last(s) == s[Len(s)]
NextCommand == cmdItems[Len(cmdResults) + 1]
NextSkill == skillItems[Len(skillResults) + 1]
CommandStepped == Len(cmdResults') = Len(cmdResults) + 1
SkillStepped == Len(skillResults') = Len(skillResults) + 1
NewEvents == SubSeq(log', Len(log) + 1, Len(log'))
Declined == \E i \in DOMAIN NewEvents :
               NewEvents[i].e = "confirm_callback" /\ ~NewEvents[i].answer

\* C1: in a dry run no step of install_items or uninstall_items changes any
\* entry of the target directories or of the source, and the result of every
\* item is success=true, skipped=false
C1_DryRunTouchesNothing ==
    [][call.dry_run =>
          /\ tgt' = tgt /\ src' = src
          /\ CommandStepped => Last(cmdResults').success /\ ~Last(cmdResults').skipped
          /\ SkillStepped => Last(skillResults').success /\ ~Last(skillResults').skipped]_vars

C1_Witness ==
    /\ call.dry_run /\ exit = "returned"
    /\ cmdResults # <<>> /\ skillResults # <<>>
    /\ tgt.commands.entries["a.md"] = Old

\* C2: with force and no dry run the confirmation callback is never called,
\* whether one is supplied or not, and an install over an existing
\* destination that reports success has put the source's content there
C2_ForceOverwritesUnasked ==
    [][(pc = "run" /\ IsInstall /\ Force /\ ~call.dry_run) =>
          /\ \A i \in DOMAIN log' : log'[i].e # "confirm_callback"
          /\ (CommandStepped /\ CommandExists(NextCommand) /\ Last(cmdResults').success) =>
                /\ ~Last(cmdResults').skipped
                /\ tgt'.commands.entries[NextCommand.path.name] = CommandAt(NextCommand.path)
          /\ (SkillStepped /\ SkillExists(NextSkill) /\ Last(skillResults').success) =>
                /\ ~Last(skillResults').skipped
                /\ tgt'.skills.entries[NextSkill.path.name] = SkillAt(NextSkill.path)]_vars

C2_Witness ==
    /\ call.op = "install_items" /\ call.force /\ call.cb /\ ~call.dry_run
    /\ exit = "returned"
    /\ tgt0.commands.entries["a.md"] = Old /\ tgt.commands.entries["a.md"] = New
    /\ tgt0.skills.entries["s"] = OldSkill
    /\ tgt.skills.entries["s"] = Source.skills.entries["s"]

\* C3: without force and without dry run, when the callback is asked about an
\* existing destination and declines, the result is success=true,
\* skipped=true and the target directories are exactly as before
C3_DeclineSkipsUnchanged ==
    [][(pc = "run" /\ IsInstall /\ ~Force /\ ~call.dry_run /\ CallbackSupplied /\ Declined) =>
          /\ tgt' = tgt
          /\ CommandStepped =>
                /\ CommandExists(NextCommand)
                /\ Last(cmdResults') = Result(NextCommand.name, TRUE, TRUE, "")
          /\ SkillStepped =>
                /\ SkillExists(NextSkill)
                /\ Last(skillResults') = Result(NextSkill.name, TRUE, TRUE, "")]_vars

C3_Witness ==
    /\ call.op = "install_items" /\ ~call.force /\ call.cb /\ ~call.dry_run
    /\ exit = "returned"
    /\ \E i \in DOMAIN cmdResults : cmdResults[i].skipped
    /\ \E i \in DOMAIN skillResults : skillResults[i].skipped
    /\ tgt = tgt0
    /\ tgt.commands.entries["a.md"] = Old /\ tgt.skills.entries["s"] = OldSkill

\* C4: uninstalling a path that does not exist gives success=false with a
\* "not found" error and changes nothing; uninstall_items goes on to the next
\* item and ends by returning one result per item
C4_MissingPathNotFound ==
    /\ [][(pc = "run" /\ ~IsInstall /\ ~call.dry_run) =>
             /\ (CommandStepped /\ CommandAt(NextCommand.path).kind = "absent") =>
                   /\ Last(cmdResults').name = NextCommand.name
                   /\ ~Last(cmdResults').success
                   /\ Last(cmdResults').error = "File not found"
                   /\ tgt' = tgt /\ pc' = "run" /\ exit' = "running"
             /\ (SkillStepped /\ SkillAt(NextSkill.path).kind = "absent") =>
                   /\ Last(skillResults').name = NextSkill.name
                   /\ ~Last(skillResults').success
                   /\ Last(skillResults').error = "Directory not found"
                   /\ tgt' = tgt /\ pc' = "run" /\ exit' = "running"]_vars
    /\ [](~IsInstall /\ pc = "done" =>
             /\ exit = "returned"
             /\ Len(cmdResults) = Len(cmdItems)
             /\ Len(skillResults) = Len(skillItems))

C4_Witness ==
    /\ call.op = "uninstall_items" /\ ~call.dry_run /\ exit = "returned"
    /\ Len(cmdResults) = 2
    /\ cmdResults[1].error = "File not found"
    /\ cmdResults[2].success
    /\ \E i \in DOMAIN skillResults : skillResults[i].error = "Directory not found"

\* C5: however an item or the creation of the target directories fails,
\* install_items ends by returning one result per input item, in input order
C5_OneResultPerItem ==
    (IsInstall /\ pc = "done") =>
        /\ exit = "returned"
        /\ Len(cmdResults) = Len(cmdItems)
        /\ Len(skillResults) = Len(skillItems)
        /\ \A i \in DOMAIN cmdResults : cmdResults[i].name = cmdItems[i].name
        /\ \A i \in DOMAIN skillResults : skillResults[i].name = skillItems[i].name

\* C20: outside a dry run, when install_skill reports success, not skipped,
\* over a destination that was a directory, the destination holds exactly
\* the entries of the source directory: an entry the old directory had and
\* the source has not is gone
C20_SkillReplacedWhole ==
    [][(IsInstall /\ ~call.dry_run /\ pc = "run" /\ SkillStepped
        /\ SkillExists(NextSkill)
        /\ tgt.skills.entries[NextSkill.path.name].kind = "dir"
        /\ Last(skillResults').success /\ ~Last(skillResults').skipped) =>
          /\ tgt'.skills.entries[NextSkill.path.name].kind = "dir"
          /\ \A e \in EntryNames :
                /\ tgt'.skills.entries[NextSkill.path.name].sub[e]
                      = SkillAt(NextSkill.path).sub[e]
                /\ SkillAt(NextSkill.path).sub[e].kind = "absent" =>
                      tgt'.skills.entries[NextSkill.path.name].sub[e].kind = "absent"]_vars

C20_Witness ==
    /\ call.op = "install_items" /\ ~call.force /\ call.cb /\ ~call.dry_run
    /\ exit = "returned"
    /\ \E i \in DOMAIN log : /\ log[i].e = "confirm_callback" /\ log[i].answer
                              /\ log[i].name = YStr("s")
    /\ skillResults = <<Result(YStr("s"), TRUE, FALSE, "")>>
    /\ tgt0.skills.entries["s"].sub["x"] = Old
    /\ tgt.skills.entries["s"].sub["x"] = Absent
    /\ tgt.skills.entries["s"].sub["SKILL.md"] = New

\* what the progress callback has received, in order
Progress == SelectSeq(log, LAMBDA ev : ev.e = "progress_callback")
ProgressBefore(j) == Cardinality({i \in 1..(j - 1) : log[i].e = "progress_callback"})

\* C21: install_items and uninstall_items handle the commands in input order
\* and then the skills in input order; the progress callback has received
\* exactly the results so far, one per item and in that order; a
\* confirmation about an item comes after the progress report of the item
\* before it and is followed at once by its own progress report
C21_StrictSequence ==
    (call.op \in {"install_items", "uninstall_items"}) =>
        LET results == cmdResults \o skillResults
            items == cmdItems \o skillItems
        IN /\ Len(cmdResults) <= Len(cmdItems) /\ Len(skillResults) <= Len(skillItems)
           /\ skillResults # <<>> => Len(cmdResults) = Len(cmdItems)
           /\ \A i \in DOMAIN cmdResults : cmdResults[i].name = cmdItems[i].name
           /\ \A i \in DOMAIN skillResults : skillResults[i].name = skillItems[i].name
           /\ ~call.progress => Progress = <<>>
           /\ call.progress =>
                 /\ Len(Progress) = Len(results)
                 /\ \A i \in DOMAIN results :
                       Progress[i] = Event("progress_callback", results[i].name,
                                           results[i].success, results[i].skipped, FALSE)
                 /\ \A j \in DOMAIN log :
                       log[j].e = "confirm_callback" =>
                          /\ ProgressBefore(j) < Len(items)
                          /\ log[j].name = items[ProgressBefore(j) + 1].name
                          /\ j < Len(log) /\ log[j + 1].e = "progress_callback"

C21_Witness ==
    /\ call.op = "install_items" /\ call.progress /\ exit = "returned"
    /\ Len(cmdResults) = 2 /\ Len(skillResults) = 1
    /\ Len(log) = 4 /\ log[3].e = "confirm_callback" /\ log[4].skipped

Accepted(name) == \E i \in DOMAIN NewEvents :
                     /\ NewEvents[i].e = "confirm_callback"
                     /\ NewEvents[i].name = name
                     /\ NewEvents[i].answer

\* C24: when install_command or install_skill runs without dry_run and
\* without force on a destination that exists, the destination is changed
\* only if the confirmation callback was invoked for that item and accepted;
\* this includes the case where no callback is supplied
C24_OverwriteOnlyAfterAcceptedConfirmation ==
    [][(pc = "run" /\ IsInstall /\ ~call.dry_run /\ ~Force) =>
          /\ (CommandStepped /\ CommandExists(NextCommand)
                 /\ tgt'.commands.entries[NextCommand.path.name]
                       # tgt.commands.entries[NextCommand.path.name])
                => Accepted(NextCommand.name)
          /\ (SkillStepped /\ SkillExists(NextSkill)
                 /\ tgt'.skills.entries[NextSkill.path.name]
                       # tgt.skills.entries[NextSkill.path.name])
                => Accepted(NextSkill.name)]_vars

----------------------------------------------------------------------------
(* Claims about the install and uninstall commands *)

Results == Range(cmdResults) \cup Range(skillResults)
Prompts == {i \in DOMAIN log :
               log[i].e \in {"prompt_select", "prompt_confirm", "confirm_callback"}}
AcceptedAgents == {"claude-code", "codex"}

\* C6: a command whose transfers include a result with success=false ends
\* with exit code 1
C6_FailureExitsOne ==
    (IsCli /\ pc = "done" /\ \E r \in Results : ~r.success) => exit = "exit1"

\* the names a command may choose from: those discovered when it starts
Discovered(kind) ==
    IF call.op = "install"
    THEN (IF kind = "commands" THEN discover_commands("src") ELSE discover_skills("src"))
    ELSE (IF kind = "commands" THEN discover_installed_commands("tgt0")
          ELSE discover_installed_skills("tgt0"))
Unknown(requested, kind) ==
    SelectSeq(requested, LAMBDA n : \A i \in DOMAIN Discovered(kind) :
                                        Discovered(kind)[i].name # n)
\* explicit-names mode, past the checks of the agent and of the flags
ExplicitNames ==
    /\ IsCli /\ call.agent \in AcceptedAgents /\ ~call.list_items /\ ~call.all_items
    /\ call.commands # <<>> \/ call.skills # <<>>
Reported == SelectSeq(log, LAMBDA ev : ev.e = "show_invalid_names")

\* C7 as stated: when a requested name is unknown, the command reports exactly
\* the unknown names among all the requested ones, exits with 1 and changes
\* nothing
C7_ReportsEveryUnknownName ==
    (ExplicitNames /\ pc # "cli"
     /\ Unknown(call.commands, "commands") \o Unknown(call.skills, "skills") # <<>>) =>
        /\ pc = "done" /\ exit = "exit1" /\ tgt = tgt0
        /\ UNION {Range(Reported[i].name) : i \in DOMAIN Reported}
              = Range(Unknown(call.commands, "commands"))
                \cup Range(Unknown(call.skills, "skills"))

\* C7 as amended: when a requested name is unknown, the command reports the
\* unknown command names, or when there are none the unknown skill names,
\* each list in the order given, exits with 1 and changes nothing
C7_ReportsUnknownNamesOfFirstKind ==
    (ExplicitNames /\ pc # "cli"
     /\ Unknown(call.commands, "commands") \o Unknown(call.skills, "skills") # <<>>) =>
        /\ pc = "done" /\ exit = "exit1" /\ tgt = tgt0
        /\ cmdResults = <<>> /\ skillResults = <<>>
        /\ log = <<Ev("show_invalid_names",
                      IF Unknown(call.commands, "commands") # <<>>
                      THEN Unknown(call.commands, "commands")
                      ELSE Unknown(call.skills, "skills"))>>

C7_Witness ==
    /\ call.op = "install" /\ ExplicitNames
    /\ call.commands = <<YStr("a")>> /\ call.skills = <<YStr("y")>>
    /\ exit = "exit1"
    /\ log = <<Ev("show_invalid_names", <<YStr("y")>>)>>

\* the usage errors: no agent, an agent that is not accepted, --all with
\* another selector
UsageError ==
    \/ call.agent \notin AcceptedAgents
    \/ call.all_items /\ (call.commands # <<>> \/ call.skills # <<>>
                          \/ call.commands_only \/ call.skills_only)

\* C9 as stated: a usage error ends the command with exit code 1, with an
\* error shown, no prompt shown and nothing changed
C9_UsageErrorExitsOne ==
    (IsCli /\ pc # "cli" /\ UsageError) =>
        /\ pc = "done" /\ exit = "exit1"
        /\ Prompts = {} /\ tgt = tgt0

\* C9 as amended: a usage error ends the command with no prompt shown and
\* nothing changed, and with exit code 1 unless --list is handled first:
\* install --list, and uninstall --list with an accepted agent, list and exit 0
ListedFirst ==
    call.list_items /\ (call.op = "install" \/ call.agent \in AcceptedAgents)

C9_UsageErrorStopsUnlessListed ==
    (IsCli /\ pc # "cli" /\ UsageError) =>
        /\ pc = "done" /\ Prompts = {} /\ tgt = tgt0
        /\ cmdResults = <<>> /\ skillResults = <<>>
        /\ IF ListedFirst
           THEN exit = "exit0" /\ \A i \in DOMAIN log : log[i].e # "show_error"
           ELSE exit = "exit1" /\ Len(log) = 1 /\ log[1].e = "show_error"

C9_Witness ==
    /\ IsCli /\ call.agent = "claude-code" /\ ~call.list_items
    /\ call.all_items /\ call.commands_only
    /\ exit = "exit1"
    /\ Len(log) = 1 /\ log[1].e = "show_error"

----------------------------------------------------------------------------
(* Specification of validate_names called on its own *)

\* an available item of the given name
Available(name) ==
    ItemInfo(name, DefaultDescription, Path("src", "commands", "a.md"), "command")

InitValidate ==
    /\ src = Source
    /\ tgt = [commands |-> NoDir(CmdNames), skills |-> NoSkillDir]
    /\ tgt0 = tgt
    /\ call \in {[op |-> "validate_names", requested |-> r, available |-> a] :
                    r \in SeqsUpTo(Y({"a", "x", "z"}), MaxLen),
                    a \in SeqsUpTo({Available(n) : n \in Y({"a", "x"}) \cup {YNull}},
                                  MaxAvailable)}
    /\ pc = "call"
    /\ selected = [commands |-> <<>>, skills |-> <<>>]
    /\ cmdItems = <<>>
    /\ skillItems = <<>>
    /\ cmdResults = <<>>
    /\ skillResults = <<>>
    /\ log = <<>>
    /\ exit = "running"
    /\ ret = <<>>

\* discovery.py:176-179
Validate ==
    /\ pc = "call" /\ call.op = "validate_names"
    /\ ret' = validate_names(call.requested, call.available)
    /\ pc' = "done"
    /\ exit' = "returned"
    /\ UNCHANGED <<src, tgt, tgt0, call, selected, cmdItems, skillItems, cmdResults,
                   skillResults, log>>

NextValidate == Validate

SpecValidate == InitValidate /\ [][NextValidate]_vars

\* C8: valid holds the requested names that are names of available items,
\* invalid the others, each in the order and with the multiplicity of the
\* request: the k-th known name of the request is valid[k], the k-th unknown
\* one is invalid[k], and neither list holds anything else
C8_ValidateNamesPartitions ==
    (call.op = "validate_names" /\ pc = "done") =>
        LET requested == call.requested
            known(n) == \E i \in DOMAIN call.available : call.available[i].name = n
            knownUpTo(j) == Cardinality({i \in 1..j : known(requested[i])})
        IN /\ Len(ret.valid) = knownUpTo(Len(requested))
           /\ Len(ret.invalid) = Len(requested) - knownUpTo(Len(requested))
           /\ \A j \in DOMAIN requested :
                 IF known(requested[j])
                 THEN ret.valid[knownUpTo(j)] = requested[j]
                 ELSE ret.invalid[j - knownUpTo(j)] = requested[j]
           /\ \A i \in DOMAIN ret.valid : \A j \in DOMAIN ret.invalid :
                 ret.valid[i] # ret.invalid[j]

C8_Witness ==
    /\ call.op = "validate_names" /\ pc = "done"
    /\ call.requested = <<YStr("a"), YStr("z"), YStr("a")>>
    /\ ret.valid = <<YStr("a"), YStr("a")>>
    /\ ret.invalid = <<YStr("z")>>

----------------------------------------------------------------------------
(* Specification of discover_commands and discover_skills called on their own *)

\* what a markdown file may hold: no metadata; a name; the name "b", which is
\* also the stem of b.md; an empty name; a null
\* name; a description only; a block that is not YAML; a block that is a
\* scalar; a block that is never closed
Contents ==
    {New, Named("x"), Named("b"), Named(""),
     File(<<Dash, KV("name", YNull), Dash>>),
     File(<<Dash, KV("description", YStr("d")), Dash>>),
     File(<<Dash, Bad, Dash>>),
     File(<<Dash, Text("t"), Dash>>),
     File(<<Dash, KV("name", YStr("x"))>>)}

CommandDirs ==
    {NoDir(CmdNames)} \cup
    {[exists |-> TRUE, entries |-> e] :
        e \in {f \in [Range(CmdNames) -> Contents \cup {Unreadable, Absent}] :
                  f["n.txt"] \in {Absent, New}}}

SkillDirs ==
    {NoSkillDir} \cup
    {[exists |-> TRUE, entries |-> e] :
        e \in [Range(SkillNames) ->
                 {AbsentNode, FileNode, DirNode(NoTree)}
                 \cup {DirNode([n \in EntryNames |-> IF n = "SKILL.md" THEN c ELSE Absent]) :
                          c \in Contents \cup {Unreadable}}]}

InitDiscovery ==
    /\ src \in {[commands |-> c, skills |-> k] : c \in CommandDirs, k \in SkillDirs}
    /\ tgt = [commands |-> NoDir(CmdNames), skills |-> NoSkillDir]
    /\ tgt0 = tgt
    /\ call = [op |-> "discover"]
    /\ pc = "call"
    /\ selected = [commands |-> <<>>, skills |-> <<>>]
    /\ cmdItems = <<>>
    /\ skillItems = <<>>
    /\ cmdResults = <<>>
    /\ skillResults = <<>>
    /\ log = <<>>
    /\ exit = "running"
    /\ ret = <<>>

\* discovery.py:62-103
DiscoverCommands ==
    /\ pc = "call" /\ call.op = "discover"
    /\ ret' = discover_commands("src")
    /\ call' = [op |-> "discover_commands"]
    /\ pc' = "done"
    /\ exit' = "returned"
    /\ UNCHANGED <<src, tgt, tgt0, selected, cmdItems, skillItems, cmdResults,
                   skillResults, log>>

\* discovery.py:106-154
DiscoverSkills ==
    /\ pc = "call" /\ call.op = "discover"
    /\ ret' = discover_skills("src")
    /\ call' = [op |-> "discover_skills"]
    /\ pc' = "done"
    /\ exit' = "returned"
    /\ UNCHANGED <<src, tgt, tgt0, selected, cmdItems, skillItems, cmdResults,
                   skillResults, log>>

NextDiscovery ==
    \/ DiscoverCommands
    \/ DiscoverSkills

SpecDiscovery == InitDiscovery /\ [][NextDiscovery]_vars

Rank(n, order) == CHOOSE i \in DOMAIN order : order[i] = n
Order == IF call.op = "discover_commands" THEN CmdNames ELSE SkillNames

\* the file that names an item: the command file, or the skill's SKILL.md
Metadata(item) ==
    IF item.item_type = "command" THEN src.commands.entries[item.path.name]
    ELSE src.skills.entries[item.path.name].sub["SKILL.md"]
\* a name: value line between the markers of the file
DeclaresName(file) ==
    \E i \in 2..Len(file.lines) : file.lines[i].k = "kv" /\ file.lines[i].key = "name"

\* C10: the discovered items are in the order of their file or directory
\* names, and each has a non-empty name: the one its metadata block gives, or
\* without one the file stem or directory name
C10_SortedWithNonEmptyNames ==
    (call.op \in {"discover_commands", "discover_skills"} /\ pc = "done") =>
        /\ \A i \in DOMAIN ret : \A j \in DOMAIN ret :
              i < j => Rank(ret[i].path.name, Order) < Rank(ret[j].path.name, Order)
        /\ \A i \in DOMAIN ret :
              /\ ret[i].name.tag = "str" /\ ret[i].name.s # ""
              /\ ~DeclaresName(Metadata(ret[i])) => ret[i].name = YStr(Stem(ret[i].path.name))

\* C11: no two items of one discovery result have the same name
C11_NamesUnique ==
    (call.op \in {"discover_commands", "discover_skills"} /\ pc = "done") =>
        \A i \in DOMAIN ret : \A j \in DOMAIN ret : i # j => ret[i].name # ret[j].name

\* the candidates of a discovery: the *.md entries of the commands directory,
\* the directories of the skills directory that hold an entry SKILL.md
Candidates ==
    IF call.op = "discover_commands"
    THEN {n \in Range(CmdNames) : src.commands.exists /\ IsMd(n)
                                    /\ src.commands.entries[n].kind # "absent"}
    ELSE {n \in Range(SkillNames) : src.skills.exists
                                      /\ src.skills.entries[n].kind = "dir"
                                      /\ src.skills.entries[n].sub["SKILL.md"].kind # "absent"}
CandidateFile(n) ==
    IF call.op = "discover_commands" THEN src.commands.entries[n]
    ELSE src.skills.entries[n].sub["SKILL.md"]
Returned == {ret[i].path.name : i \in DOMAIN ret}

\* the lines between the opening marker and the first closing one
Block(lines) ==
    SubSeq(lines, 2, (CHOOSE c \in Closers(lines) : \A d \in Closers(lines) : c <= d) - 1)
HasBlock(file) ==
    file.readable /\ Len(file.lines) >= 1 /\ file.lines[1].k = "dash"
    /\ Closers(file.lines) # {}
\* a metadata block that is not YAML
ParseFails(file) ==
    HasBlock(file) /\ \E i \in DOMAIN Block(file.lines) : Block(file.lines)[i].k = "bad"
\* no metadata block, or one that is a YAML mapping
WellFormed(file) ==
    /\ file.readable
    /\ HasBlock(file) => /\ Block(file.lines) # <<>>
                         /\ \A i \in DOMAIN Block(file.lines) : Block(file.lines)[i].k = "kv"

\* C12: discovery returns normally; a candidate that cannot be read or whose
\* metadata block is not YAML is not in the result, and every candidate that
\* is readable and well formed is
C12_BrokenCandidatesExcluded ==
    (call.op \in {"discover_commands", "discover_skills"} /\ pc = "done") =>
        /\ exit = "returned"
        /\ \A n \in Candidates :
              /\ (~CandidateFile(n).readable \/ ParseFails(CandidateFile(n)))
                    => n \notin Returned
              /\ WellFormed(CandidateFile(n)) => n \in Returned

----------------------------------------------------------------------------
(* skills/telegram-notify/telegram-notify.py: send_telegram_message *)

\* telegram-notify.py:217
max_retries == 2

\* what one client.post(url, json=payload) comes to: a response, with its
\* status code, whether its body is JSON and the retry_after it carries
\* (0: none), or an exception of httpx
Response(status, body, retry_after) ==
    [kind |-> "response", status |-> status, body |-> body, retry_after |-> retry_after]
TimeoutException == [kind |-> "timeout", status |-> 0, body |-> "", retry_after |-> 0]
RequestError == [kind |-> "error", status |-> 0, body |-> "", retry_after |-> 0]

Responses ==
    {Response(200, "json", 0), Response(429, "text", 0)}
    \cup {Response(429, "json", r) : r \in {0, 1, 30}}
    \cup {Response(c, "json", 0) : c \in {400, 401, 403, 404, 500, 502, 503}}
    \cup {TimeoutException, RequestError}

\* the POSTs issued so far; each pass of the loop issues one, so their number
\* is the loop variable attempt
Posts == SelectSeq(log, LAMBDA ev : ev.e = "post")

\* a loop that allows a third pass (a mutant of range(max_retries))
InRangeThree(attempt) == attempt < max_retries + 1

\* telegram-notify.py:218: for attempt in range(max_retries)
InRange(attempt) == attempt < max_retries

\* telegram-notify.py:223-262: what a pass of the loop does with the outcome
\* of its POST: return True, return False, or sleep and continue
Outcome(resp, attempt) ==
    IF resp.kind = "timeout"
    THEN (IF attempt < max_retries - 1 THEN [do |-> "continue", sleep |-> 0]
          ELSE [do |-> "return_false", sleep |-> 0])
    ELSE IF resp.kind = "error" THEN [do |-> "return_false", sleep |-> 0]
    ELSE IF resp.status = 200 THEN [do |-> "return_true", sleep |-> 0]
    ELSE IF resp.status = 429
    THEN [do |-> "continue",
          sleep |-> IF resp.body = "json" /\ resp.retry_after # 0 THEN resp.retry_after
                    ELSE 5]
    ELSE IF resp.status >= 500 /\ attempt < max_retries - 1
    THEN [do |-> "continue", sleep |-> 2]
    ELSE [do |-> "return_false", sleep |-> 0]

\* os.getenv gives None for a variable that is not set, else its text
Unset == [tag |-> "null", s |-> ""]
Getenv == {Unset, YStr(""), YStr("t")}

\* Python's truth value of what os.getenv returned
Truthy(v) == v # Unset /\ v.s # ""

\* a send_telegram_message that looks at the environment before it looks at
\* dry_run (a mutant)
SendBeginEnvFirst ==
    /\ pc = "call" /\ call.op = "send_telegram_message"
    /\ IF ~Truthy(call.token) \/ ~Truthy(call.chat_id)
       THEN pc' = "done" /\ ret' = <<FALSE>> /\ exit' = "returned"
            /\ log' = log \o <<Ev("print", "missing environment variables")>>
       ELSE IF call.dry_run
       THEN pc' = "done" /\ ret' = <<TRUE>> /\ exit' = "returned"
            /\ log' = log \o <<Ev("print", "dry run")>>
       ELSE pc' = "loop" /\ UNCHANGED <<ret, exit, log>>
    /\ UNCHANGED <<src, tgt, tgt0, call, selected, cmdItems, skillItems, cmdResults,
                   skillResults>>

\* telegram-notify.py:187-215: the dry run and the environment variables
SendBegin ==
    /\ pc = "call" /\ call.op = "send_telegram_message"
    /\ IF call.dry_run
       THEN pc' = "done" /\ ret' = <<TRUE>> /\ exit' = "returned"
            /\ log' = log \o <<Ev("print", "dry run")>>
       ELSE IF ~Truthy(call.token) \/ ~Truthy(call.chat_id)
       THEN pc' = "done" /\ ret' = <<FALSE>> /\ exit' = "returned"
            /\ log' = log \o <<Ev("print", "missing environment variables")>>
       ELSE pc' = "loop" /\ UNCHANGED <<ret, exit, log>>
    /\ UNCHANGED <<src, tgt, tgt0, call, selected, cmdItems, skillItems, cmdResults,
                   skillResults>>

\* telegram-notify.py:218-262: one pass of the loop
Post ==
    /\ pc = "loop" /\ call.op = "send_telegram_message"
    /\ InRange(Len(Posts))
    /\ \E resp \in Responses :
          LET o == Outcome(resp, Len(Posts))
          IN /\ log' = log \o <<Ev("post", resp)>>
                           \o (IF o.sleep > 0 THEN <<Ev("sleep", o.sleep)>> ELSE <<>>)
             /\ pc' = IF o.do = "continue" THEN "loop" ELSE "done"
             /\ ret' = IF o.do = "continue" THEN ret ELSE <<o.do = "return_true">>
             /\ exit' = IF o.do = "continue" THEN exit ELSE "returned"
    /\ UNCHANGED <<src, tgt, tgt0, call, selected, cmdItems, skillItems, cmdResults,
                   skillResults>>

\* telegram-notify.py:264: the loop is over
Exhausted ==
    /\ pc = "loop" /\ call.op = "send_telegram_message"
    /\ ~InRange(Len(Posts))
    /\ pc' = "done"
    /\ ret' = <<FALSE>>
    /\ exit' = "returned"
    /\ UNCHANGED <<src, tgt, tgt0, call, selected, cmdItems, skillItems, cmdResults,
                   skillResults, log>>

InitSend ==
    /\ src = Source
    /\ tgt = [commands |-> NoDir(CmdNames), skills |-> NoSkillDir]
    /\ tgt0 = tgt
    /\ call \in {[op |-> "send_telegram_message", dry_run |-> d, token |-> t, chat_id |-> c] :
                    d \in BOOLEAN, t \in Getenv, c \in Getenv}
    /\ pc = "call"
    /\ selected = [commands |-> <<>>, skills |-> <<>>]
    /\ cmdItems = <<>>
    /\ skillItems = <<>>
    /\ cmdResults = <<>>
    /\ skillResults = <<>>
    /\ log = <<>>
    /\ exit = "running"
    /\ ret = <<>>

NextSend ==
    \/ SendBegin
    \/ Post
    \/ Exhausted

\* the function runs on: no step of it waits for another process
SpecSend == InitSend /\ [][NextSend]_vars /\ WF_vars(NextSend)

Retried(resp) == resp.kind = "response" /\ (resp.status = 429 \/ resp.status >= 500)

\* C13: send_telegram_message returns; it issues at most two POSTs; after a
\* 429 or 5xx response to the first POST it issues exactly one more; after a
\* 429 or 5xx response to the second it returns False
C13_AtMostTwoPosts ==
    /\ <>(pc = "done")
    /\ [](/\ Len(Posts) <= 2
          /\ (pc = "done" /\ Len(Posts) >= 1 /\ Retried(Posts[1].name)) => Len(Posts) = 2
          /\ (pc = "done" /\ Len(Posts) = 2 /\ Retried(Posts[2].name)) => ret = <<FALSE>>)

C13_Witness ==
    /\ pc = "done" /\ ret = <<FALSE>>
    /\ Len(Posts) = 2
    /\ Posts[1].name.status = 503 /\ Posts[2].name.status = 429

\* C23: send_telegram_message issues no POST in two cases: with dry_run it
\* returns True whatever the two environment variables hold; without dry_run
\* and with TELEGRAM_BOT_TOKEN or TELEGRAM_CHAT_ID unset or empty it returns
\* False
C23_NoRequestOnDryRunOrMissingCredentials ==
    (call.op = "send_telegram_message") =>
        /\ call.dry_run =>
              /\ Posts = <<>>
              /\ pc # "loop"
              /\ pc = "done" => ret = <<TRUE>>
        /\ (~call.dry_run /\ (call.token \in {Unset, YStr("")}
                               \/ call.chat_id \in {Unset, YStr("")})) =>
              /\ Posts = <<>>
              /\ pc # "loop"
              /\ pc = "done" => ret = <<FALSE>>

C23_Witness ==
    /\ call.op = "send_telegram_message" /\ pc = "done"
    /\ call.dry_run /\ call.token = Unset /\ call.chat_id = YStr("")
    /\ ret = <<TRUE>> /\ Posts = <<>>

C23_WitnessMissing ==
    /\ call.op = "send_telegram_message" /\ pc = "done"
    /\ ~call.dry_run /\ call.token = YStr("t") /\ call.chat_id = YStr("")
    /\ ret = <<FALSE>> /\ Posts = <<>>

\* C14: a POST is followed by another one only when its response was 429 or
\* 5xx; a timeout, another request error and a 4xx response other than 429
\* make the function return False at once
C14_OnlyRateLimitAndServerErrorRetried ==
    /\ \A i \in DOMAIN Posts : i < Len(Posts) => Retried(Posts[i].name)
    /\ (Posts # <<>> /\ ~Retried(Last(Posts).name) /\ Last(Posts).name.status # 200) =>
          pc = "done" /\ ret = <<FALSE>>

----------------------------------------------------------------------------
(* Specification of install_items called twice with the same arguments *)

\* most items in the batch that is installed twice
MaxTwice == 2

InitTwice ==
    /\ src = Source
    /\ tgt \in Targets
    /\ tgt0 = tgt
    /\ selected = [commands |-> <<>>, skills |-> <<>>]
    /\ call \in {c \in ApiCalls : c.op = "install_items" /\ ~c.dry_run /\ ~c.progress}
    /\ pc = "call"
    /\ cmdItems \in SeqsUpTo(CommandPool(call.op), MaxTwice)
    /\ skillItems \in SeqsUpTo(SkillPool(call.op), MaxTwice - Len(cmdItems))
    /\ cmdResults = <<>>
    /\ skillResults = <<>>
    /\ log = <<>>
    /\ exit = "running"
    /\ ret = <<>>

\* the caller keeps what the first call left and returned, and calls
\* install_items again with the same arguments
Rerun ==
    /\ pc = "done" /\ exit = "returned" /\ call.op = "install_items"
    /\ ret = <<>>
    /\ ret' = <<[tgt |-> tgt, command_results |-> cmdResults, skill_results |-> skillResults,
                  log |-> log]>>
    /\ tgt0' = tgt
    /\ pc' = "call"
    /\ exit' = "running"
    /\ cmdResults' = <<>>
    /\ skillResults' = <<>>
    /\ log' = <<>>
    /\ UNCHANGED <<src, tgt, call, selected, cmdItems, skillItems>>

NextTwice ==
    \/ InstallBegin
    \/ InstallCommandStep
    \/ InstallSkillStep
    \/ Return
    \/ Rerun

SpecTwice == InitTwice /\ [][NextTwice]_vars

\* the second call has returned; both calls ran with force, or with a
\* callback that accepted whenever it was asked
Accepting(events) ==
    \A i \in DOMAIN events : events[i].e = "confirm_callback" => events[i].answer
SecondRunDone ==
    /\ call.op = "install_items" /\ ret # <<>> /\ pc = "done" /\ exit = "returned"
    /\ call.force \/ (call.cb /\ Accepting(ret[1].log) /\ Accepting(log))
AllSucceeded(results) == \A i \in DOMAIN results : results[i].success

----------------------------------------------------------------------------
(* More claims about the install and uninstall commands *)

\* install --all for an accepted agent whose directories do not exist yet
AllIntoNothing ==
    /\ call.op = "install" /\ call.agent \in AcceptedAgents
    /\ call.all_items /\ ~Conflict /\ ~call.list_items /\ ~call.dry_run
    /\ tgt0 = [commands |-> NoDir(CmdNames), skills |-> NoSkillDir]
Completed == \E i \in DOMAIN log : log[i].e = "show_completion"

\* C16: install --all into nothing, once it has run its transfers without a
\* failure, has put every discovered command and skill under the agent's
\* directories under its source name, has skipped nothing and has not
\* called the confirmation callback
C16_AllInstallsEverything ==
    (AllIntoNothing /\ pc = "done" /\ Completed /\ \A r \in Results : r.success) =>
        /\ \A i \in DOMAIN discover_commands("src") :
              LET n == discover_commands("src")[i].path.name
              IN tgt.commands.exists /\ tgt.commands.entries[n] = src.commands.entries[n]
        /\ \A i \in DOMAIN discover_skills("src") :
              LET n == discover_skills("src")[i].path.name
              IN tgt.skills.exists /\ tgt.skills.entries[n] = src.skills.entries[n]
        /\ \A r \in Results : ~r.skipped
        /\ \A i \in DOMAIN log : log[i].e # "confirm_callback"

\* positions in the log of the batch confirmation, of the summary, and of
\* what the transfers show and ask
Confirmations == {i \in DOMAIN log : log[i].e = "prompt_confirm"}
Summaries == {i \in DOMAIN log : log[i].e = "show_summary"}
Transfers == {i \in DOMAIN log : log[i].e \in {"progress_callback", "confirm_callback"}}
NothingTransferred == tgt = tgt0 /\ cmdResults = <<>> /\ skillResults = <<>> /\ Transfers = {}

\* C17: without --yes, a command that gets as far as its summary asks the
\* batch confirmation exactly once, right after the summary and before
\* anything is transferred; until then nothing is transferred or created;
\* when the confirmation is declined the command ends with exit code 0 and
\* nothing transferred or created; uninstall never asks about an item
C17_ConfirmOnceBeforeTransfer ==
    /\ []((IsCli /\ ~call.yes /\ Summaries # {}) =>
             /\ Cardinality(Confirmations) = 1 /\ Cardinality(Summaries) = 1
             /\ \A i \in Confirmations : i - 1 \in Summaries
             /\ \A i \in Confirmations : \A j \in Transfers : i < j)
    /\ []((IsCli /\ Summaries = {}) => Confirmations = {} /\ NothingTransferred)
    /\ [][(IsCli /\ ~call.yes /\ pc = "confirm" /\ pc' = "done") =>
             (exit' = "exit0" /\ NothingTransferred')]_vars
    /\ [](call.op = "uninstall" =>
             \A i \in DOMAIN log : log[i].e # "confirm_callback")

C17_Witness ==
    /\ call.op = "uninstall" /\ ~call.yes /\ call.all_items
    /\ pc = "done" /\ exit = "exit0"
    /\ Cardinality(Confirmations) = 1 /\ Last(log).e = "prompt_confirm"
    /\ tgt0 = Source /\ NothingTransferred

\* install --yes with --all or with names
YesWithSelector ==
    /\ call.op = "install" /\ call.yes
    /\ call.all_items \/ call.commands # <<>> \/ call.skills # <<>>

\* C18: install --yes with --all or with names shows no prompt, neither the
\* selection, nor the batch confirmation, nor an overwrite confirmation; it
\* skips no item, and unless it is a dry run an item installed over an
\* existing destination has replaced it with the source's content
C18_YesNeverPrompts ==
    /\ [](YesWithSelector => Prompts = {} /\ \A r \in Results : ~r.skipped)
    /\ [][(YesWithSelector /\ ~call.dry_run /\ pc = "run") =>
             /\ (CommandStepped /\ CommandExists(NextCommand) /\ Last(cmdResults').success) =>
                   tgt'.commands.entries[NextCommand.path.name] = CommandAt(NextCommand.path)
             /\ (SkillStepped /\ SkillExists(NextSkill) /\ Last(skillResults').success) =>
                   tgt'.skills.entries[NextSkill.path.name] = SkillAt(NextSkill.path)]_vars

C18_Witness ==
    /\ YesWithSelector /\ ~call.force /\ ~call.dry_run /\ call.all_items
    /\ src = Source /\ pc = "done" /\ Completed /\ Prompts = {}
    /\ tgt0.commands.entries["a.md"] = Old /\ tgt.commands.entries["a.md"] = New
    /\ tgt0.skills.entries["s"] = OldSkill
    /\ tgt.skills.entries["s"] = Source.skills.entries["s"]

----------------------------------------------------------------------------
(* skills/telegram-notify/telegram-notify.py: main and format_message *)

\* telegram-notify.py:53: truncate(text, max_len=4000)
max_len == 4000
\* telegram-notify.py:288: if len(summary) > 500
SummaryLimit == 500
\* telegram-notify.py:289: summary[:497]
SummaryKept == 497
\* telegram-notify.py:292-293 and 172: todos[:5]
TodoLimit == 5
\* most --todo options on a command line
MaxTodos == 7

\* a text is a sequence of runs; a run is n repetitions of a unit c that is
\* w characters wide, and remembers what it is part of: the summary, the
\* idx-th action item, or the frame of the message
Run(c, n, w, part, idx) == [c |-> c, n |-> n, w |-> w, part |-> part, idx |-> idx]
Chars(c, n, part, idx) == IF n = 0 THEN <<>> ELSE <<Run(c, n, 1, part, idx)>>
Frame(n) == Chars("f", n, "frame", 0)

\* len(text)
RECURSIVE StrLen(_)
StrLen(text) == IF text = <<>> THEN 0
                ELSE Head(text).n * Head(text).w + StrLen(Tail(text))

\* text[:k]; a unit that is cut leaves its first characters
RECURSIVE Take(_, _)
Take(text, k) ==
    IF text = <<>> \/ k <= 0 THEN <<>>
    ELSE LET r == Head(text)
         IN IF r.n * r.w <= k THEN <<r>> \o Take(Tail(text), k - r.n * r.w)
            ELSE (IF k \div r.w > 0 THEN <<[r EXCEPT !.n = k \div r.w]>> ELSE <<>>)
                 \o (IF k % r.w > 0
                     THEN <<Run("cut " \o r.c, k % r.w, 1, r.part, r.idx)>> ELSE <<>>)

\* html.escape: & becomes &amp; and a double quote &quot;
html_escape(text) ==
    [i \in DOMAIN text |->
        CASE text[i].c = "&" -> [text[i] EXCEPT !.c = "&amp;", !.w = 5]
          [] text[i].c = "quote" -> [text[i] EXCEPT !.c = "&quot;", !.w = 6]
          [] OTHER -> text[i]]

\* a truncate that lets every text through (a mutant)
truncateNever(text, limit) == text

\* telegram-notify.py:53-57
truncate(text, limit) ==
    IF StrLen(text) <= limit THEN text
    ELSE Take(text, limit - 3) \o Chars(".", 3, "frame", 0)

\* "\n".join(lines)
RECURSIVE Join(_)
Join(lines) ==
    IF lines = <<>> THEN <<>>
    ELSE IF Len(lines) = 1 THEN Head(lines)
    ELSE Head(lines) \o Chars("newline", 1, "frame", 0) \o Join(Tail(lines))

\* STATUS_CONFIG: the lengths of the icon and of the title
Icon(status) == IF status = "blocked" THEN 2 ELSE 1
Title(status) == CASE status = "success" -> 14 [] status = "error" -> 11 [] OTHER -> 17

\* telegram-notify.py:128-182; ctx gives the lengths of the escaped agent,
\* pwd, git_branch and session_id
format_message(status, summary, todos, ctx) ==
    LET summary_escaped == html_escape(summary)
        todos_escaped == [i \in DOMAIN todos |-> html_escape(todos[i])]
        shown == SubSeq(todos_escaped, 1,
                        IF Len(todos_escaped) < TodoLimit THEN Len(todos_escaped)
                        ELSE TodoLimit)
        lines == << Frame(Icon(status) + 1 + 3 + Title(status) + 4),
                    <<>>,
                    Frame(2 + ctx.agent),
                    Frame(2 + 6 + ctx.pwd + 7),
                    Frame(2 + 6 + ctx.git_branch + 7) >>
                 \o (IF ctx.session_id > 0 THEN <<Frame(2 + 6 + ctx.session_id + 7)>>
                     ELSE <<>>)
                 \o << <<>>, Frame(20), <<>>, Frame(16), summary_escaped >>
                 \o (IF todos_escaped # <<>>
                     THEN << <<>>, Frame(19) >>
                          \o [i \in DOMAIN shown |-> Frame(2) \o shown[i]]
                     ELSE <<>>)
                 \o << <<>>, Frame(20), Frame(3 + 16) >>
    IN truncate(Join(lines), max_len)

\* the texts a command line may carry
SummaryTexts ==
    {<<>>}
    \cup {Chars("a", n, "summary", 0) : n \in {1, 497, 500, 501, 600}}
    \cup {Chars("&", n, "summary", 0) : n \in {100, 500, 501}}
    \cup {Chars("a", 496, "summary", 0) \o Chars("quote", 10, "summary", 0)}
\* the i-th --todo: i characters, the last of them an ampersand
Todo(i) == Chars("t", i - 1, "todo", i) \o Chars("&", 1, "todo", i)
LongTodo(i) == Chars("t", 4000, "todo", i)
TodoLists ==
    {[i \in 1..k |-> Todo(i)] : k \in 0..MaxTodos}
    \cup {<<LongTodo(1), Todo(2)>>}
Contexts ==
    {[agent |-> 11, pwd |-> p, git_branch |-> 4, session_id |-> s] :
        p \in {10, 4000}, s \in {0, 8}}

InitNotify ==
    /\ src = Source
    /\ tgt = [commands |-> NoDir(CmdNames), skills |-> NoSkillDir]
    /\ tgt0 = tgt
    /\ call \in {[op |-> "main", status |-> st, summary |-> m, todo |-> t, ctx |-> c] :
                    st \in {"success", "error", "blocked"}, m \in SummaryTexts,
                    t \in TodoLists, c \in Contexts}
    /\ pc = "call"
    /\ selected = [commands |-> <<>>, skills |-> <<>>]
    /\ cmdItems = <<>>
    /\ skillItems = <<>>
    /\ cmdResults = <<>>
    /\ skillResults = <<>>
    /\ log = <<>>
    /\ exit = "running"
    /\ ret = <<>>

\* telegram-notify.py:283-299: main, up to the message it hands to
\* send_telegram_message
MainFormat ==
    /\ pc = "call" /\ call.op = "main"
    /\ IF call.summary = <<>>
       THEN /\ exit' = "exit1"
            /\ ret' = ret
            /\ log' = log \o <<Ev("print", "--summary is required")>>
       ELSE LET summary == IF StrLen(call.summary) > SummaryLimit
                           THEN Take(call.summary, SummaryKept)
                                \o Chars(".", 3, "summary", 0)
                           ELSE call.summary
                todos == IF Len(call.todo) > TodoLimit
                         THEN SubSeq(call.todo, 1, TodoLimit) ELSE call.todo
            IN /\ ret' = <<[summary |-> summary, todos |-> todos,
                            message |-> format_message(call.status, summary, todos,
                                                       call.ctx)]>>
               /\ exit' = exit
               /\ log' = log
    /\ pc' = "done"
    /\ UNCHANGED <<src, tgt, tgt0, call, selected, cmdItems, skillItems, cmdResults,
                   skillResults>>

NextNotify == MainFormat

SpecNotify == InitNotify /\ [][NextNotify]_vars

Formatted == call.op = "main" /\ pc = "done" /\ ret # <<>>
Part(text, part) == SelectSeq(text, LAMBDA r : r.part = part)
\* the todo limit and the size of the message, as claimed
TodosAndSizeBounded ==
    /\ \A i \in DOMAIN ret[1].message :
          LET r == ret[1].message[i]
          IN r.part = "todo" =>
                /\ r.idx <= TodoLimit /\ r.idx <= Len(call.todo)
                /\ \A j \in DOMAIN ret[1].message :
                      (j < i /\ ret[1].message[j].part = "todo")
                         => ret[1].message[j].idx <= r.idx
    /\ ret[1].todos = SubSeq(call.todo, 1, Len(ret[1].todos))
    /\ Len(ret[1].todos) <= TodoLimit
    /\ StrLen(ret[1].message) <= max_len

\* C19 as stated: the summary in the message is at most 500 characters, of
\* the action items only the first 5 are in it, in their order, and the
\* message is at most 4000 characters
C19_LimitsInMessage ==
    Formatted =>
        /\ StrLen(Part(ret[1].message, "summary")) <= SummaryLimit
        /\ TodosAndSizeBounded

\* C19 as amended: the summary is at most 500 characters before it is
\* escaped: one of up to 500 is kept, a longer one becomes its first 497
\* characters and three dots; of the action items only the first 5 are in
\* the message, in their order; the message is at most 4000 characters
C19_LimitsBeforeEscaping ==
    Formatted =>
        /\ StrLen(ret[1].summary) <= SummaryLimit
        /\ StrLen(call.summary) <= SummaryLimit => ret[1].summary = call.summary
        /\ StrLen(call.summary) > SummaryLimit =>
              /\ StrLen(ret[1].summary) = SummaryLimit
              /\ SubSeq(ret[1].summary, 1, Len(ret[1].summary) - 1)
                    = Take(call.summary, SummaryKept)
              /\ Last(ret[1].summary) = Run(".", 3, 1, "summary", 0)
        /\ TodosAndSizeBounded

C19_Witness ==
    /\ Formatted
    /\ StrLen(call.summary) = 506 /\ StrLen(ret[1].summary) = 500
    /\ Len(call.todo) = 7 /\ Len(ret[1].todos) = 5
    /\ call.ctx.pwd = 4000 /\ StrLen(ret[1].message) = 4000

----------------------------------------------------------------------------
(* interactive_select as a function of the offered items and of what the    *)
(* user does with the checkbox                                               *)

MaxOffered == 3

\* the items a caller may offer: discovered items have distinct paths; two of
\* them declare the same name and one declares the empty name
Offered ==
    {ItemInfo(YStr("a"), DefaultDescription, Path("src", "commands", "a.md"), "command"),
     ItemInfo(YStr("x"), DefaultDescription, Path("src", "commands", "b.md"), "command"),
     ItemInfo(YStr("x"), DefaultDescription, Path("src", "commands", "c.md"), "command"),
     ItemInfo(YStr(""), DefaultDescription, Path("src", "commands", "d.md"), "command")}

OfferedLists ==
    {s \in SeqsUpTo(Offered, MaxOffered) :
        \A i, j \in DOMAIN s : s[i] = s[j] => i = j}

InitSelect ==
    /\ src = Source
    /\ tgt = [commands |-> NoDir(CmdNames), skills |-> NoSkillDir]
    /\ tgt0 = tgt
    /\ call \in {[op |-> "interactive_select", items |-> s, tick |-> t] :
                    s \in OfferedLists,
                    t \in UNION {Ticks(u) : u \in OfferedLists}}
    /\ call.tick \in Ticks(call.items)
    /\ pc = "call"
    /\ selected = [commands |-> <<>>, skills |-> <<>>]
    /\ cmdItems = <<>>
    /\ skillItems = <<>>
    /\ cmdResults = <<>>
    /\ skillResults = <<>>
    /\ log = <<>>
    /\ exit = "running"
    /\ ret = <<>>

\* ui.py:31-81
InteractiveSelect ==
    /\ pc = "call" /\ call.op = "interactive_select"
    /\ ret' = interactive_select(call.items, call.tick)
    /\ log' = IF call.items = <<>> THEN <<Ev("print", "No commands available.")>>
              ELSE SelectPrompt(call.items, "commands")
    /\ pc' = "done"
    /\ exit' = "returned"
    /\ UNCHANGED <<src, tgt, tgt0, call, selected, cmdItems, skillItems, cmdResults,
                   skillResults>>

NextSelect == InteractiveSelect

SpecSelect == InitSelect /\ [][NextSelect]_vars

\* the names of the ticked items, in the order of the offered list
TickedNames(items, S) ==
    LET idx == SelectSeq([i \in DOMAIN items |-> i], LAMBDA i : i \in S)
    IN [k \in DOMAIN idx |-> items[idx[k]].name]

\* C22: interactive_select returns normally with names of offered items only
\* (names being strings other than the two markers): nothing after a
\* cancellation, every offered name in list order when [Select All] is ticked
\* (also next to [Select None]), nothing when only [Select None] is ticked,
\* and otherwise exactly the names of the ticked items, never a marker
C22_SelectReturnsOfferedNames ==
    (call.op = "interactive_select" /\ pc = "done") =>
        LET items == call.items
            tick == call.tick
        IN /\ exit = "returned"
           /\ \A i \in DOMAIN ret : \E j \in DOMAIN items : ret[i] = items[j].name
           /\ \A i \in DOMAIN ret : ret[i] \notin {SELECT_ALL, SELECT_NONE}
           /\ tick.cancel => ret = <<>>
           /\ (~tick.cancel /\ tick.all) =>
                 ret = [i \in DOMAIN items |-> items[i].name]
           /\ (~tick.cancel /\ ~tick.all /\ tick.none) => ret = <<>>
           /\ (~tick.cancel /\ ~tick.all /\ ~tick.none) =>
                 ret = TickedNames(items, tick.items)

C22_Witness ==
    /\ call.op = "interactive_select" /\ pc = "done"
    /\ call.tick.all /\ call.tick.none /\ call.tick.items = {2}
    /\ ret = <<YStr("x"), YStr(""), YStr("x")>>

----------------------------------------------------------------------------
(* install_items into empty target directories, followed by the uninstall   *)
(* command with --all                                                        *)

\* target directories that hold no items: missing, or present and empty
EmptyTargets ==
    {[commands |-> c, skills |-> k] :
        c \in {NoDir(CmdNames),
               [exists |-> TRUE, entries |-> [n \in Range(CmdNames) |-> Absent]]},
        k \in {NoSkillDir,
               [exists |-> TRUE, entries |-> [n \in Range(SkillNames) |-> AbsentNode]]}}

\* a set of items, in some order
Distinct(S) == {s \in SeqsUpTo(S, Cardinality(S)) : \A i, j \in DOMAIN s : s[i] = s[j] => i = j}

InitRound ==
    /\ src \in {Source, SourceTwins}
    /\ tgt \in EmptyTargets
    /\ tgt0 = tgt
    /\ selected = [commands |-> <<>>, skills |-> <<>>]
    /\ call \in {c \in ApiCalls : c.op = "install_items" /\ ~c.dry_run /\ ~c.progress}
    /\ pc = "call"
    /\ cmdItems \in Distinct(CommandPool(call.op))
    /\ skillItems \in Distinct(SkillPool(call.op))
    /\ cmdResults = <<>>
    /\ skillResults = <<>>
    /\ log = <<>>
    /\ exit = "running"
    /\ ret = <<>>

\* cli.py:276-347: after install_items has returned, the user runs
\* 'uninstall --agent claude-code --all', with or without --yes
UninstallAll ==
    /\ pc = "done" /\ exit = "returned" /\ call.op = "install_items"
    /\ \E y \in BOOLEAN :
          call' = [op |-> "uninstall", agent |-> "claude-code", commands |-> <<>>,
                   skills |-> <<>>, commands_only |-> FALSE, skills_only |-> FALSE,
                   all_items |-> TRUE, list_items |-> FALSE, dry_run |-> FALSE,
                   yes |-> y, force |-> FALSE, progress |-> TRUE]
    /\ ret' = <<[tgt |-> tgt, commands |-> cmdItems, skills |-> skillItems,
                  command_results |-> cmdResults, skill_results |-> skillResults]>>
    /\ tgt0' = tgt
    /\ pc' = "cli"
    /\ exit' = "running"
    /\ cmdItems' = <<>>
    /\ skillItems' = <<>>
    /\ cmdResults' = <<>>
    /\ skillResults' = <<>>
    /\ log' = <<>>
    /\ UNCHANGED <<src, tgt, selected>>

NextRound ==
    \/ InstallBegin
    \/ InstallCommandStep
    \/ InstallSkillStep
    \/ Return
    \/ UninstallAll
    \/ UninstallSelect
    \/ UninstallConfirm
    \/ UninstallCommandStep
    \/ UninstallSkillStep
    \/ Complete

SpecRound == InitRound /\ [][NextRound]_vars

\* the uninstall command has run to its end after an install_items that
\* reported success for every item
RoundTripDone ==
    /\ call.op = "uninstall" /\ pc = "done" /\ Completed
    /\ \A i \in DOMAIN ret[1].command_results : ret[1].command_results[i].success
    /\ \A i \in DOMAIN ret[1].skill_results : ret[1].skill_results[i].success

\* a deletion that the operating system refused
Refused(results) ==
    \E i \in DOMAIN results : results[i].error \in {"Permission denied", "other"}

\* C25: after installing a set of discovered (readable) commands and skills
\* into target directories that held no items, uninstall --all removes every
\* installed file and skill directory and every uninstall result is
\* success=true, also for items whose declared name differs from the file
\* name (deletions the operating system refuses apart)
C25_InstallUninstallRoundTrip ==
    (RoundTripDone /\ ~Refused(cmdResults) /\ ~Refused(skillResults)) =>
        /\ \A i \in DOMAIN cmdResults : cmdResults[i].success
        /\ \A i \in DOMAIN skillResults : skillResults[i].success
        /\ \A i \in DOMAIN ret[1].commands :
              CommandAt(Path("tgt", "commands", ret[1].commands[i].path.name)).kind = "absent"
        /\ \A i \in DOMAIN ret[1].skills :
              SkillAt(Path("tgt", "skills", ret[1].skills[i].path.name)).kind = "absent"

====
